---- MODULE Spec2Model ----
(***************************************************************************)
(* The parallel fractal-compute core of source/main.cpp: two               *)
(* FractalRenderer workers, each scanning a band of the shared raster, and *)
(* the consumer thread of Application::run that publishes Jobs, polls      *)
(* jobDone(), reads the raster and finally stops and joins the workers.    *)
(*                                                                         *)
(* Every thread is modelled statement by statement; a label such as "w84"  *)
(* or "c258" is the source line the thread executes next.  A mutex is a    *)
(* variable naming its holder.  job.scale, a double that only ever shrinks *)
(* toward the floor 1e-11, is modelled by its zoom level: 0 is the initial *)
(* 2.0 and MaxZoom is the floor.  A raster byte holds the inputs the pixel  *)
(* kernel computed it from: the pixel, the raster size and the viewport.   *)
(***************************************************************************)
EXTENDS Integers, FiniteSets, Sequences, TLC

\* ------------------------------------------------------------- bounds
MaxW == 1
MaxH == 3
MaxZoom == 1
ResubmitMaxH == 1
\* the pixel kernel is run for scales 0..KernelMaxScale and for offsets whose
\* real and imaginary parts lie in -KernelMaxOffset..KernelMaxOffset
\* termination and progress are checked on rasters of at most FairMaxH rows
FairMaxH == 1
KernelMaxScale == 2
KernelMaxOffset == 1

\* ------------------------------------------------------------- constants
NumWorkers == 2
BytesPerPixel == 3
max_iterations == 1000
max_colors == 50

Workers == 1..NumWorkers

\* job.offset / job2.offset: the same fixed zoom target for both workers
Offset == "0.001643721971153+0.822467633298876i"

\* a raster byte of new unsigned char[...] that nobody has written yet
Unwritten == <<>>

VARIABLES
    texture_width,   \* FractalRenderer::texture_width  (window width)
    texture_height,  \* FractalRenderer::texture_height (window height)
    texture_data,    \* the shared raster, byte offset -> value
    texture,         \* what texture->update last uploaded
    freed,           \* delete [] texture_data has run
    job,             \* Application::run's locals job (1) and job2 (2)
    app_running,     \* Application::running
    cpc,             \* consumer thread: next line
    c_this,          \* consumer thread: the worker whose method it is in
    c_ret,           \* consumer thread: where that method returns to
    c_res,           \* consumer thread: result of the last jobDone()
    current_job,     \* FractalRenderer::current_job, per worker
    job_done,        \* FractalRenderer::job_done, per worker
    running,         \* FractalRenderer::running, per worker
    job_mutex,       \* holder of FractalRenderer::job_mutex, per worker
    running_mutex,   \* holder of FractalRenderer::running_mutex, per worker
    wpc,             \* worker thread: next line
    w_done,          \* operator(): local done
    w_running,       \* operator(): local _running
    w_y,             \* operator(): local _y
    w_x,             \* operator(): local _x
    w_job,           \* operator(): the values of current_job the scan has in registers
    written,         \* history: bytes written since the Job of their band was published
    wrote,           \* history: per worker, every byte offset it has written
    scanned,         \* history: per worker, bytes written by the scan of this loop pass
    late_bands,      \* history: per worker, scans begun after stop() returned
    band_done,       \* history: per worker, its latest scan ended by storing job_done = true
    mid_stop,        \* history: per worker, stop() found it inside a band scan
    submits,         \* history: per worker, setJob calls in this pass of the frame loop
    color_ramp,      \* Application::color_ramp, index -> colour
    ramp_i,          \* the palette loop's i (lines 222-229)
    k_pc,            \* one pixel of lines 88-124 in detail: next line
    k_in,            \* that pixel's _x, _y, the raster size and the viewport
    k_c,             \* the kernel's c
    k_z,             \* the kernel's z
    k_i,             \* the kernel's i
    k_inside,        \* the kernel's <<inside_cardioid, inside_period2_bulb>>
    k_early,         \* the kernel took the branch of line 111
    k_rgb            \* the three bytes WritePixel stored for that pixel

app_vars == <<texture, freed, job, app_running, cpc, c_this, c_ret, c_res>>
renderer_vars == <<current_job, job_done, running, job_mutex, running_mutex>>
thread_vars == <<wpc, w_done, w_running, w_y, w_x, w_job>>
history_vars == <<written, wrote, scanned, late_bands, band_done, mid_stop, submits>>
palette_vars == <<color_ramp, ramp_i>>
kernel_vars == <<k_pc, k_in, k_c, k_z, k_i, k_inside, k_early, k_rgb>>
vars == <<texture_width, texture_height, texture_data, app_vars, renderer_vars,
          thread_vars, history_vars, palette_vars, kernel_vars>>

\* ------------------------------------------------------------- helpers

\* struct Job
MakeJob(ys, yc, sc) == [y_start |-> ys, y_count |-> yc, scale |-> sc, offset |-> Offset]

\* a fault of InitialJob: job2.y_count = height / 2, which drops the odd row
InitialJob_DropRemainder(k, h) ==
    IF k = 1 THEN MakeJob(0, h \div 2, 0)
             ELSE MakeJob(h \div 2, h \div 2, 0)

\* a fault of InitialJob: job.y_count rounds up, so both bands hold the middle row
InitialJob_Overlap(k, h) ==
    IF k = 1 THEN MakeJob(0, (h + 1) \div 2, 0)
             ELSE MakeJob(h \div 2, h - (h \div 2), 0)

\* a fault of InitialJob: job2.y_count = height, which runs past the last row
InitialJob_FullCount(k, h) ==
    IF k = 1 THEN MakeJob(0, h \div 2, 0)
             ELSE MakeJob(h \div 2, h, 0)

\* job (k = 1) and job2 (k = 2) as Application::run fills them before the loop
InitialJob(k, h) ==
    IF k = 1 THEN MakeJob(0, h \div 2, 0)
             ELSE MakeJob(h \div 2, h - (h \div 2), 0)

\* the rows a Job's scan visits: _y = y_start; _y < y_start + y_count
Rows(j) == {y \in 0..(j.y_start + j.y_count - 1) : y >= j.y_start}

\* WritePixel: the three byte offsets of pixel (x, y)
PixelBytes(x, y, w) == {(y * w + x) * BytesPerPixel + c : c \in 0..(BytesPerPixel - 1)}

\* every byte offset the scan of Job j writes on a raster w pixels wide
BandBytes(j, w) == UNION {PixelBytes(x, y, w) : x \in 0..(w - 1), y \in Rows(j)}

\* the byte offsets of new unsigned char[width * height * 3]
RasterBytes(w, h) == 0..(w * h * BytesPerPixel - 1)

\* WritePixel: store the colour of pixel (x, y) into its three bytes
WritePixel(td, x, y, w, val) ==
    [b \in DOMAIN td |-> IF b \in PixelBytes(x, y, w) THEN val ELSE td[b]]

\* the pixel kernel's result for a pixel, named by everything lines 88-124 read:
\* _x, _y, texture_width, texture_height, current_job.scale, current_job.offset
Shade(x, y, w, h, j) == <<x, y, w, h, j.scale, j.offset>>

\* the pixel a byte offset belongs to, as <<x, y>>
PixelOf(b, w) == <<(b \div BytesPerPixel) % w, (b \div BytesPerPixel) \div w>>

\* job.scale = 1.0 / (elapsed * (1.0 / job.scale)), clamped at the floor
Zoom(sc, e) == IF sc + e > MaxZoom THEN MaxZoom ELSE sc + e

\* an entry of color_ramp the palette loop has not assigned (Color() leaves it so)
NoColor == <<>>

\* the colour of line 227 for index i: (sqrt(sqrt(i/K)), i/K, ((K-i)/K) * 0.5f),
\* each channel named by the integer it is computed from
RampColor(i) == [r |-> i, g |-> i, b |-> max_colors - i]

\* color_ramp when the palette loop has ended
BuiltRamp ==
    [i \in 0..(max_colors * 2 - 1) |->
        RampColor(IF i < max_colors THEN i ELSE max_colors * 2 - 1 - i)]

\* the values an uninitialised current_job may hold before the first setJob
Indeterminate == {MakeJob(0, 0, 0), MakeJob(1, 1, 0)}

\* ------------------------------------------------------------- initial state

ThreadsInit ==
    /\ texture_width \in 1..MaxW
    /\ texture_height \in 1..MaxH
    /\ texture_data = [b \in RasterBytes(texture_width, texture_height) |-> Unwritten]
    /\ texture = [b \in RasterBytes(texture_width, texture_height) |-> Unwritten]
    /\ freed = FALSE
    /\ job = [k \in Workers |-> InitialJob(k, texture_height)]
    /\ app_running = TRUE
    /\ cpc = "c222"
    /\ c_this = 1
    /\ c_ret = "c222"
    /\ c_res = FALSE
    /\ current_job \in [Workers -> Indeterminate]
    /\ job_done = [k \in Workers |-> FALSE]
    /\ running = [k \in Workers |-> TRUE]
    /\ job_mutex = [k \in Workers |-> "free"]
    /\ running_mutex = [k \in Workers |-> "free"]
    /\ wpc = [k \in Workers |-> "unstarted"]
    /\ w_done = [k \in Workers |-> FALSE]
    /\ w_running = [k \in Workers |-> TRUE]
    /\ w_y = [k \in Workers |-> 0]
    /\ w_x = [k \in Workers |-> 0]
    /\ w_job = current_job
    /\ written = {}
    /\ wrote = [k \in Workers |-> {}]
    /\ scanned = [k \in Workers |-> {}]
    /\ late_bands = [k \in Workers |-> 0]
    /\ band_done = [k \in Workers |-> FALSE]
    /\ mid_stop = [k \in Workers |-> FALSE]
    /\ submits = [k \in Workers |-> 0]

\* the two threads and the consumer seen band by band: no pixel is followed
\* statement by statement
KernelIdle ==
    /\ k_pc = "idle"
    /\ k_in = <<>>
    /\ k_c = <<0, 0>>
    /\ k_z = <<0, 0>>
    /\ k_i = 0
    /\ k_inside = <<FALSE, FALSE>>
    /\ k_early = FALSE
    /\ k_rgb = <<>>

Init ==
    /\ ThreadsInit
    /\ color_ramp = [i \in 0..(max_colors * 2 - 1) |-> NoColor]
    /\ ramp_i = 0
    /\ KernelIdle

\* ------------------------------------------------------------- FractalRenderer methods
\* (run by the consumer thread; c_this is the worker object, c_ret the return address)

\* setJob, line 53: current_job = new_job, before the lock is taken
SetJob53(k) ==
    /\ cpc = "s53" /\ c_this = k
    /\ current_job' = [current_job EXCEPT ![k] = job[k]]
    /\ written' = written \ BandBytes(job[k], texture_width)
    /\ submits' = [submits EXCEPT ![k] = @ + 1]
    /\ cpc' = "s54"
    /\ UNCHANGED <<palette_vars, kernel_vars, texture_width, texture_height, texture_data, texture, freed, job,
                   app_running, c_this, c_ret, c_res, job_done, running, job_mutex,
                   running_mutex, thread_vars, wrote, scanned, late_bands, band_done,
                   mid_stop>>

\* setJob, line 54: lock_guard lock(job_mutex)
SetJob54(k) ==
    /\ cpc = "s54" /\ c_this = k
    /\ job_mutex[k] = "free"
    /\ job_mutex' = [job_mutex EXCEPT ![k] = "main"]
    /\ cpc' = "s55"
    /\ UNCHANGED <<palette_vars, kernel_vars, texture_width, texture_height, texture_data, texture, freed, job,
                   app_running, c_this, c_ret, c_res, current_job, job_done, running,
                   running_mutex, thread_vars, history_vars>>

\* setJob, lines 55-56: job_done = false, then the guard releases the lock
SetJob55(k) ==
    /\ cpc = "s55" /\ c_this = k
    /\ job_done' = [job_done EXCEPT ![k] = FALSE]
    /\ job_mutex' = [job_mutex EXCEPT ![k] = "free"]
    /\ cpc' = c_ret
    /\ UNCHANGED <<palette_vars, kernel_vars, texture_width, texture_height, texture_data, texture, freed, job,
                   app_running, c_this, c_ret, c_res, current_job, running,
                   running_mutex, thread_vars, history_vars>>

\* jobDone, line 60: lock_guard lock(job_mutex)
JobDone60(k) ==
    /\ cpc = "d60" /\ c_this = k
    /\ job_mutex[k] = "free"
    /\ job_mutex' = [job_mutex EXCEPT ![k] = "main"]
    /\ cpc' = "d61"
    /\ UNCHANGED <<palette_vars, kernel_vars, texture_width, texture_height, texture_data, texture, freed, job,
                   app_running, c_this, c_ret, c_res, current_job, job_done, running,
                   running_mutex, thread_vars, history_vars>>

\* a fault of JobDone61: return true whatever job_done holds
JobDone61_AlwaysTrue(k) ==
    /\ cpc = "d61" /\ c_this = k
    /\ c_res' = TRUE
    /\ job_mutex' = [job_mutex EXCEPT ![k] = "free"]
    /\ cpc' = c_ret
    /\ UNCHANGED <<palette_vars, kernel_vars, texture_width, texture_height, texture_data, texture, freed, job,
                   app_running, c_this, c_ret, current_job, job_done, running,
                   running_mutex, thread_vars, history_vars>>

\* jobDone, lines 61-62: return job_done, then the guard releases the lock
JobDone61(k) ==
    /\ cpc = "d61" /\ c_this = k
    /\ c_res' = job_done[k]
    /\ job_mutex' = [job_mutex EXCEPT ![k] = "free"]
    /\ cpc' = c_ret
    /\ UNCHANGED <<palette_vars, kernel_vars, texture_width, texture_height, texture_data, texture, freed, job,
                   app_running, c_this, c_ret, current_job, job_done, running,
                   running_mutex, thread_vars, history_vars>>

\* stop, line 66: lock_guard lock(running_mutex)
Stop66(k) ==
    /\ cpc = "t66" /\ c_this = k
    /\ running_mutex[k] = "free"
    /\ running_mutex' = [running_mutex EXCEPT ![k] = "main"]
    /\ cpc' = "t67"
    /\ UNCHANGED <<palette_vars, kernel_vars, texture_width, texture_height, texture_data, texture, freed, job,
                   app_running, c_this, c_ret, c_res, current_job, job_done, running,
                   job_mutex, thread_vars, history_vars>>

\* stop, lines 67-68: running = false, then the guard releases the lock
Stop67(k) ==
    /\ cpc = "t67" /\ c_this = k
    /\ running' = [running EXCEPT ![k] = FALSE]
    /\ running_mutex' = [running_mutex EXCEPT ![k] = "free"]
    /\ mid_stop' = [mid_stop EXCEPT ![k] = wpc[k] \in {"w84", "w86"}]
    /\ cpc' = c_ret
    /\ UNCHANGED <<palette_vars, kernel_vars, texture_width, texture_height, texture_data, texture, freed, job,
                   app_running, c_this, c_ret, c_res, current_job, job_done,
                   job_mutex, thread_vars, written, wrote, scanned, late_bands,
                   band_done, submits>>

\* ------------------------------------------------------------- Application::run

\* the consumer enters method `entry` of worker k and will return to `ret`
Call(entry, k, ret) ==
    /\ cpc' = entry
    /\ c_this' = k
    /\ c_ret' = ret

\* a fault of Run222: the mirror index is max_colors*2 - i
Run222_OffByOne ==
    /\ cpc = "c222"
    /\ IF ramp_i < max_colors
       THEN /\ color_ramp' = [color_ramp EXCEPT
                                 ![ramp_i] = RampColor(ramp_i),
                                 ![max_colors * 2 - ramp_i] = RampColor(ramp_i)]
            /\ ramp_i' = ramp_i + 1
            /\ UNCHANGED cpc
       ELSE /\ cpc' = "c246"
            /\ UNCHANGED <<color_ramp, ramp_i>>
    /\ UNCHANGED <<kernel_vars, texture_width, texture_height, texture_data, texture,
                   freed, job, app_running, c_this, c_ret, c_res, renderer_vars,
                   thread_vars, history_vars>>

\* lines 222-229: one pass of the palette loop, or its end
Run222 ==
    /\ cpc = "c222"
    /\ IF ramp_i < max_colors
       THEN /\ color_ramp' = [color_ramp EXCEPT
                                 ![ramp_i] = RampColor(ramp_i),
                                 ![max_colors * 2 - 1 - ramp_i] = RampColor(ramp_i)]
            /\ ramp_i' = ramp_i + 1
            /\ UNCHANGED cpc
       ELSE /\ cpc' = "c246"
            /\ UNCHANGED <<color_ramp, ramp_i>>
    /\ UNCHANGED <<kernel_vars, texture_width, texture_height, texture_data, texture,
                   freed, job, app_running, c_this, c_ret, c_res, renderer_vars,
                   thread_vars, history_vars>>

\* line 246: worker.setJob(job)
Run246 ==
    /\ cpc = "c246"
    /\ Call("s53", 1, "c247")
    /\ UNCHANGED <<palette_vars, kernel_vars, texture_width, texture_height, texture_data, texture, freed, job,
                   app_running, c_res, renderer_vars, thread_vars, history_vars>>

\* line 247: worker2.setJob(job2)
Run247 ==
    /\ cpc = "c247"
    /\ Call("s53", 2, "c249")
    /\ UNCHANGED <<palette_vars, kernel_vars, texture_width, texture_height, texture_data, texture, freed, job,
                   app_running, c_res, renderer_vars, thread_vars, history_vars>>

\* lines 249 (k = 1) and 250 (k = 2): boost::thread worker_thread(boost::ref(worker))
StartThread(k) ==
    /\ cpc = (IF k = 1 THEN "c249" ELSE "c250")
    /\ wpc' = [wpc EXCEPT ![k] = "w78"]
    /\ cpc' = (IF k = 1 THEN "c250" ELSE "c253")
    /\ UNCHANGED <<palette_vars, kernel_vars, texture_width, texture_height, texture_data, texture, freed, job,
                   app_running, c_this, c_ret, c_res, renderer_vars, w_done, w_running,
                   w_y, w_x, w_job, history_vars>>

\* line 253: while (running)
Run253 ==
    /\ cpc = "c253"
    /\ cpc' = (IF app_running THEN "c255" ELSE "c275")
    /\ UNCHANGED <<palette_vars, kernel_vars, texture_width, texture_height, texture_data, texture, freed, job,
                   app_running, c_this, c_ret, c_res, renderer_vars, thread_vars,
                   history_vars>>

\* lines 255-258: pollEvents (onClose may clear running), then worker.jobDone()
Run255 ==
    /\ cpc = "c255"
    /\ \E close \in BOOLEAN : app_running' = (app_running /\ ~close)
    /\ Call("d60", 1, "c258b")
    /\ submits' = [k \in Workers |-> 0]
    /\ UNCHANGED <<palette_vars, kernel_vars, texture_width, texture_height, texture_data, texture, freed, job,
                   c_res, renderer_vars, thread_vars, written, wrote, scanned,
                   late_bands, band_done, mid_stop>>

\* a fault of Run258b: the if tests worker.jobDone() alone
Run258b_OnlyFirst ==
    /\ cpc = "c258b"
    /\ cpc' = (IF c_res THEN "c260" ELSE "c271")
    /\ UNCHANGED <<palette_vars, kernel_vars, texture_width, texture_height, texture_data, texture, freed, job,
                   app_running, c_this, c_ret, c_res, renderer_vars, thread_vars,
                   history_vars>>

\* line 258: worker.jobDone() && worker2.jobDone(), after the first call
Run258b ==
    /\ cpc = "c258b"
    /\ IF c_res THEN Call("d60", 2, "c258c")
                ELSE cpc' = "c271" /\ UNCHANGED <<c_this, c_ret>>
    /\ UNCHANGED <<palette_vars, kernel_vars, texture_width, texture_height, texture_data, texture, freed, job,
                   app_running, c_res, renderer_vars, thread_vars, history_vars>>

\* line 258: the if, after the second call
Run258c ==
    /\ cpc = "c258c"
    /\ cpc' = (IF c_res THEN "c260" ELSE "c271")
    /\ UNCHANGED <<palette_vars, kernel_vars, texture_width, texture_height, texture_data, texture, freed, job,
                   app_running, c_this, c_ret, c_res, renderer_vars, thread_vars,
                   history_vars>>

\* line 260: texture->update(texture_data) reads the whole raster
Run260 ==
    /\ cpc = "c260"
    /\ texture' = texture_data
    /\ cpc' = "c262"
    /\ UNCHANGED <<palette_vars, kernel_vars, texture_width, texture_height, texture_data, freed, job,
                   app_running, c_this, c_ret, c_res, renderer_vars, thread_vars,
                   history_vars>>

\* lines 262-265: the next scale, then worker.setJob(job)
Run262 ==
    /\ cpc = "c262"
    /\ \E e \in 0..1 : job' = [job EXCEPT ![1].scale = Zoom(job[1].scale, e)]
    /\ Call("s53", 1, "c267")
    /\ UNCHANGED <<palette_vars, kernel_vars, texture_width, texture_height, texture_data, texture, freed,
                   app_running, c_res, renderer_vars, thread_vars, history_vars>>

\* a fault of Run267: job2.scale = job.scale is missing
Run267_StaleScale ==
    /\ cpc = "c267"
    /\ Call("s53", 2, "c271")
    /\ UNCHANGED <<palette_vars, kernel_vars, texture_width, texture_height, texture_data, texture, freed, job,
                   app_running, c_res, renderer_vars, thread_vars, history_vars>>

\* lines 267-268: job2.scale = job.scale, then worker2.setJob(job2)
Run267 ==
    /\ cpc = "c267"
    /\ job' = [job EXCEPT ![2].scale = job[1].scale]
    /\ Call("s53", 2, "c271")
    /\ UNCHANGED <<palette_vars, kernel_vars, texture_width, texture_height, texture_data, texture, freed,
                   app_running, c_res, renderer_vars, thread_vars, history_vars>>

\* lines 271-273: draw, swapBuffers, back to the loop test
Run271 ==
    /\ cpc = "c271"
    /\ cpc' = "c253"
    /\ UNCHANGED <<palette_vars, kernel_vars, texture_width, texture_height, texture_data, texture, freed, job,
                   app_running, c_this, c_ret, c_res, renderer_vars, thread_vars,
                   history_vars>>

\* lines 275 (k = 1) and 276 (k = 2): worker.stop()
RunStop(k) ==
    /\ cpc = (IF k = 1 THEN "c275" ELSE "c276")
    /\ Call("t66", k, IF k = 1 THEN "c276" ELSE "c277")
    /\ UNCHANGED <<palette_vars, kernel_vars, texture_width, texture_height, texture_data, texture, freed, job,
                   app_running, c_res, renderer_vars, thread_vars, history_vars>>

\* lines 277 (k = 1) and 278 (k = 2): worker_thread.join()
RunJoin(k) ==
    /\ cpc = (IF k = 1 THEN "c277" ELSE "c278")
    /\ wpc[k] = "exit"
    /\ cpc' = (IF k = 1 THEN "c278" ELSE "c280")
    /\ UNCHANGED <<palette_vars, kernel_vars, texture_width, texture_height, texture_data, texture, freed, job,
                   app_running, c_this, c_ret, c_res, renderer_vars, thread_vars,
                   history_vars>>

\* lines 280-282: delete sprite_buffer, texture, texture_data
Run280 ==
    /\ cpc = "c280"
    /\ freed' = TRUE
    /\ cpc' = "done"
    /\ UNCHANGED <<palette_vars, kernel_vars, texture_width, texture_height, texture_data, texture, job,
                   app_running, c_this, c_ret, c_res, renderer_vars, thread_vars,
                   history_vars>>

\* ------------------------------------------------------------- FractalRenderer::operator()
\* (the worker thread of worker k)

\* stop() has returned for worker k
StopReturned(k) == ~running[k] /\ running_mutex[k] # "main"

\* a read of current_job inside the scan: the scan runs unsynchronised with setJob's
\* write, so a read returns the field as it is now or as the scan first found it
ReadJob(k) == {current_job[k], w_job[k]}

\* line 78: lock_guard lock(job_mutex)
Loop78(k) ==
    /\ wpc[k] = "w78"
    /\ job_mutex[k] = "free"
    /\ job_mutex' = [job_mutex EXCEPT ![k] = "worker"]
    /\ wpc' = [wpc EXCEPT ![k] = "w79"]
    /\ UNCHANGED <<palette_vars, kernel_vars, texture_width, texture_height, texture_data, app_vars, current_job,
                   job_done, running, running_mutex, w_done, w_running, w_y, w_x, w_job,
                   history_vars>>

\* lines 79-80: done = job_done, then the guard releases the lock
Loop79(k) ==
    /\ wpc[k] = "w79"
    /\ w_done' = [w_done EXCEPT ![k] = job_done[k]]
    /\ job_mutex' = [job_mutex EXCEPT ![k] = "free"]
    /\ wpc' = [wpc EXCEPT ![k] = "w82"]
    /\ UNCHANGED <<palette_vars, kernel_vars, texture_width, texture_height, texture_data, app_vars, current_job,
                   job_done, running, running_mutex, w_running, w_y, w_x, w_job,
                   history_vars>>

\* a fault of Loop82: the test of line 82 is taken as failed, the worker sleeps
Loop82_Idle(k) ==
    /\ wpc[k] = "w82"
    /\ wpc' = [wpc EXCEPT ![k] = "w133"]
    /\ UNCHANGED <<palette_vars, kernel_vars, texture_width, texture_height, texture_data, app_vars, renderer_vars,
                   w_done, w_running, w_y, w_x, w_job, history_vars>>

\* lines 82-84: if (!done) the scan begins with _y = current_job.y_start, else sleep
Loop82(k) ==
    /\ wpc[k] = "w82"
    /\ IF ~w_done[k]
       THEN /\ w_y' = [w_y EXCEPT ![k] = current_job[k].y_start]
            /\ w_job' = [w_job EXCEPT ![k] = current_job[k]]
            /\ scanned' = [scanned EXCEPT ![k] = {}]
            /\ band_done' = [band_done EXCEPT ![k] = FALSE]
            /\ late_bands' = [late_bands EXCEPT
                                ![k] = IF StopReturned(k) THEN @ + 1 ELSE @]
            /\ wpc' = [wpc EXCEPT ![k] = "w84"]
       ELSE /\ wpc' = [wpc EXCEPT ![k] = "w133"]
            /\ UNCHANGED <<w_y, w_job, scanned, late_bands, band_done>>
    /\ UNCHANGED <<palette_vars, kernel_vars, texture_width, texture_height, texture_data, app_vars, renderer_vars,
                   w_done, w_running, w_x, written, wrote, mid_stop, submits>>

\* a fault of Loop84: _y + 1 < y_start + y_count, which leaves the last row out
Loop84_SkipLastRow(k) ==
    /\ wpc[k] = "w84"
    /\ \E j \in ReadJob(k) :
          IF w_y[k] + 1 < j.y_start + j.y_count
          THEN /\ w_x' = [w_x EXCEPT ![k] = 0]
               /\ wpc' = [wpc EXCEPT ![k] = "w86"]
          ELSE /\ wpc' = [wpc EXCEPT ![k] = "w128"]
               /\ UNCHANGED w_x
    /\ UNCHANGED <<palette_vars, kernel_vars, texture_width, texture_height, texture_data, app_vars, renderer_vars,
                   w_done, w_running, w_y, w_job, history_vars>>

\* a fault of Loop84: the row loop gives up as soon as running is false
Loop84_Cancel(k) ==
    /\ wpc[k] = "w84"
    /\ \E j \in ReadJob(k) :
          IF running[k] /\ w_y[k] < j.y_start + j.y_count
          THEN /\ w_x' = [w_x EXCEPT ![k] = 0]
               /\ wpc' = [wpc EXCEPT ![k] = "w86"]
          ELSE /\ wpc' = [wpc EXCEPT ![k] = "w128"]
               /\ UNCHANGED w_x
    /\ UNCHANGED <<palette_vars, kernel_vars, texture_width, texture_height, texture_data, app_vars, renderer_vars,
                   w_done, w_running, w_y, w_job, history_vars>>

\* line 84: _y < current_job.y_start + current_job.y_count, then _x = 0
Loop84(k) ==
    /\ wpc[k] = "w84"
    /\ \E j \in ReadJob(k) :
          IF w_y[k] < j.y_start + j.y_count
          THEN /\ w_x' = [w_x EXCEPT ![k] = 0]
               /\ wpc' = [wpc EXCEPT ![k] = "w86"]
          ELSE /\ wpc' = [wpc EXCEPT ![k] = "w128"]
               /\ UNCHANGED w_x
    /\ UNCHANGED <<palette_vars, kernel_vars, texture_width, texture_height, texture_data, app_vars, renderer_vars,
                   w_done, w_running, w_y, w_job, history_vars>>

\* a fault of Loop86: the kernel is given the row counted from the top of the band
Loop86_BandRelative(k) ==
    /\ wpc[k] = "w86"
    /\ IF w_x[k] < texture_width
       THEN /\ \E j \in ReadJob(k) :
                 texture_data' = WritePixel(texture_data, w_x[k], w_y[k], texture_width,
                                            Shade(w_x[k], w_y[k] - j.y_start,
                                                  texture_width, texture_height, j))
            /\ written' = written \cup PixelBytes(w_x[k], w_y[k], texture_width)
            /\ wrote' = [wrote EXCEPT
                           ![k] = @ \cup PixelBytes(w_x[k], w_y[k], texture_width)]
            /\ scanned' = [scanned EXCEPT
                             ![k] = @ \cup PixelBytes(w_x[k], w_y[k], texture_width)]
            /\ w_x' = [w_x EXCEPT ![k] = @ + 1]
            /\ UNCHANGED <<wpc, w_y>>
       ELSE /\ w_y' = [w_y EXCEPT ![k] = @ + 1]
            /\ wpc' = [wpc EXCEPT ![k] = "w84"]
            /\ UNCHANGED <<texture_data, written, wrote, scanned, w_x>>
    /\ UNCHANGED <<palette_vars, kernel_vars, texture_width, texture_height, app_vars, renderer_vars, w_done,
                   w_running, w_job, late_bands, band_done, mid_stop, submits>>

\* lines 86-125: _x < (size_t)texture_width; the kernel and WritePixel for (_x, _y);
\* ++_x; when the row is finished ++_y and back to line 84
Loop86(k) ==
    /\ wpc[k] = "w86"
    /\ IF w_x[k] < texture_width
       THEN /\ \E j \in ReadJob(k) :
                 texture_data' = WritePixel(texture_data, w_x[k], w_y[k], texture_width,
                                            Shade(w_x[k], w_y[k], texture_width,
                                                  texture_height, j))
            /\ written' = written \cup PixelBytes(w_x[k], w_y[k], texture_width)
            /\ wrote' = [wrote EXCEPT
                           ![k] = @ \cup PixelBytes(w_x[k], w_y[k], texture_width)]
            /\ scanned' = [scanned EXCEPT
                             ![k] = @ \cup PixelBytes(w_x[k], w_y[k], texture_width)]
            /\ w_x' = [w_x EXCEPT ![k] = @ + 1]
            /\ UNCHANGED <<wpc, w_y>>
       ELSE /\ w_y' = [w_y EXCEPT ![k] = @ + 1]
            /\ wpc' = [wpc EXCEPT ![k] = "w84"]
            /\ UNCHANGED <<texture_data, written, wrote, scanned, w_x>>
    /\ UNCHANGED <<palette_vars, kernel_vars, texture_width, texture_height, app_vars, renderer_vars, w_done,
                   w_running, w_job, late_bands, band_done, mid_stop, submits>>

\* line 128: lock_guard lock(job_mutex)
Loop128(k) ==
    /\ wpc[k] = "w128"
    /\ job_mutex[k] = "free"
    /\ job_mutex' = [job_mutex EXCEPT ![k] = "worker"]
    /\ wpc' = [wpc EXCEPT ![k] = "w129"]
    /\ UNCHANGED <<palette_vars, kernel_vars, texture_width, texture_height, texture_data, app_vars, current_job,
                   job_done, running, running_mutex, w_done, w_running, w_y, w_x, w_job,
                   history_vars>>

\* a fault of Loop129: the guard of line 128 lives on to the end of the loop body
Loop129_KeepLock(k) ==
    /\ wpc[k] = "w129"
    /\ job_done' = [job_done EXCEPT ![k] = TRUE]
    /\ band_done' = [band_done EXCEPT ![k] = TRUE]
    /\ wpc' = [wpc EXCEPT ![k] = "w136"]
    /\ UNCHANGED <<palette_vars, kernel_vars, texture_width, texture_height, texture_data, app_vars, current_job,
                   running, job_mutex, running_mutex, w_done, w_running, w_y, w_x, w_job,
                   written, wrote, scanned, late_bands, mid_stop, submits>>

\* a fault of Loop129: the store job_done = true is missing
Loop129_Forget(k) ==
    /\ wpc[k] = "w129"
    /\ job_mutex' = [job_mutex EXCEPT ![k] = "free"]
    /\ band_done' = [band_done EXCEPT ![k] = job_done[k]]
    /\ wpc' = [wpc EXCEPT ![k] = "w136"]
    /\ UNCHANGED <<palette_vars, kernel_vars, texture_width, texture_height, texture_data, app_vars, current_job,
                   job_done, running, running_mutex, w_done, w_running, w_y, w_x, w_job,
                   written, wrote, scanned, late_bands, mid_stop, submits>>

\* lines 129-130: job_done = true, then the guard releases the lock
Loop129(k) ==
    /\ wpc[k] = "w129"
    /\ job_done' = [job_done EXCEPT ![k] = TRUE]
    /\ job_mutex' = [job_mutex EXCEPT ![k] = "free"]
    /\ band_done' = [band_done EXCEPT ![k] = TRUE]
    /\ wpc' = [wpc EXCEPT ![k] = "w136"]
    /\ UNCHANGED <<palette_vars, kernel_vars, texture_width, texture_height, texture_data, app_vars, current_job,
                   running, running_mutex, w_done, w_running, w_y, w_x, w_job,
                   written, wrote, scanned, late_bands, mid_stop, submits>>

\* line 133: boost::thread::sleep for 1 ms
Loop133(k) ==
    /\ wpc[k] = "w133"
    /\ wpc' = [wpc EXCEPT ![k] = "w136"]
    /\ UNCHANGED <<palette_vars, kernel_vars, texture_width, texture_height, texture_data, app_vars, renderer_vars,
                   w_done, w_running, w_y, w_x, w_job, history_vars>>

\* line 136: lock_guard lock(running_mutex)
Loop136(k) ==
    /\ wpc[k] = "w136"
    /\ running_mutex[k] = "free"
    /\ running_mutex' = [running_mutex EXCEPT ![k] = "worker"]
    /\ wpc' = [wpc EXCEPT ![k] = "w137"]
    /\ UNCHANGED <<palette_vars, kernel_vars, texture_width, texture_height, texture_data, app_vars, current_job,
                   job_done, running, job_mutex, w_done, w_running, w_y, w_x, w_job,
                   history_vars>>

\* a fault of Loop137: the loop is while (true)
Loop137_Forever(k) ==
    /\ wpc[k] = "w137"
    /\ w_running' = [w_running EXCEPT ![k] = running[k]]
    /\ running_mutex' = [running_mutex EXCEPT ![k] = "free"]
    /\ wpc' = [wpc EXCEPT ![k] = "w78"]
    /\ UNCHANGED <<palette_vars, kernel_vars, texture_width, texture_height, texture_data, app_vars, current_job,
                   job_done, running, job_mutex, w_done, w_y, w_x, w_job, history_vars>>

\* lines 137-138: _running = running, the guard releases the lock, while (_running)
Loop137(k) ==
    /\ wpc[k] = "w137"
    /\ w_running' = [w_running EXCEPT ![k] = running[k]]
    /\ running_mutex' = [running_mutex EXCEPT ![k] = "free"]
    /\ wpc' = [wpc EXCEPT ![k] = IF running[k] THEN "w78" ELSE "exit"]
    /\ UNCHANGED <<palette_vars, kernel_vars, texture_width, texture_height, texture_data, app_vars, current_job,
                   job_done, running, job_mutex, w_done, w_y, w_x, w_job, history_vars>>

\* ------------------------------------------------------------- the program

Consumer ==
    \/ Run222
    \/ Run246 \/ Run247
    \/ \E k \in Workers : StartThread(k)
    \/ Run253 \/ Run255 \/ Run258b \/ Run258c \/ Run260 \/ Run262 \/ Run267 \/ Run271
    \/ \E k \in Workers : RunStop(k)
    \/ \E k \in Workers : RunJoin(k)
    \/ Run280
    \/ \E k \in Workers : SetJob53(k) \/ SetJob54(k) \/ SetJob55(k)
    \/ \E k \in Workers : JobDone60(k) \/ JobDone61(k)
    \/ \E k \in Workers : Stop66(k) \/ Stop67(k)

Worker(k) ==
    \/ Loop78(k) \/ Loop79(k) \/ Loop82(k) \/ Loop84(k) \/ Loop86(k)
    \/ Loop128(k) \/ Loop129(k) \/ Loop133(k) \/ Loop136(k) \/ Loop137(k)

Next == Consumer \/ \E k \in Workers : Worker(k)

Spec == Init /\ [][Next]_vars

\* Fair scheduling: a thread that is again and again able to run does run. A
\* thread whose next statement locks a mutex is able to run whenever the mutex is
\* free; the other thread of the pair takes and releases the same mutex on every
\* pass of its loop (the consumer job_mutex in jobDone(), the worker
\* running_mutex at line 136), so the waiting thread needs the mutex to be handed
\* over eventually: strong fairness per thread.
Fairness ==
    /\ SF_vars(Consumer)
    /\ \A k \in Workers : SF_vars(Worker(k))

InitFair == Init /\ texture_height <= FairMaxH

SpecFair == InitFair /\ [][Next]_vars /\ Fairness

\* A caller of the public setJob that does not wait for jobDone(): it goes on to
\* lines 262-268 although a worker reported not done
Resubmit ==
    /\ cpc \in {"c258b", "c258c"}
    /\ ~c_res
    /\ cpc' = "c262"
    /\ UNCHANGED <<palette_vars, kernel_vars, texture_width, texture_height, texture_data, texture, freed, job,
                   app_running, c_this, c_ret, c_res, renderer_vars, thread_vars,
                   history_vars>>

NextResubmit == Next \/ Resubmit

\* the workers driven by such a caller, on rasters of at most ResubmitMaxH rows
InitResubmit == Init /\ texture_height <= ResubmitMaxH

SpecResubmit == InitResubmit /\ [][NextResubmit]_vars

\* ------------------------------------------------------------- the pixel kernel
\* Lines 88-124 and WritePixel for one pixel, statement by statement, in exact
\* integer arithmetic: the raster sizes, scales and offsets below make c a
\* Gaussian integer, so z, |z|^2 and every comparison are computed without rounding.

\* raster widths and heights n for which (double)p / n * 2.0 - 1.0 is an integer
KernelSizes == {1, 2}

\* ((double)p / n) * 2.0 - 1.0, lines 88-89
Coord(p, n) == (2 * p) \div n - 1

\* the int expressions 1/4 and 1/16 of lines 96-98: C's integer division
OneOverFour == 1 \div 4
OneOverSixteen == 1 \div 16

\* z.real()*z.real() + z.imag()*z.imag()
NormSq(z) == z[1] * z[1] + z[2] * z[2]

\* z*z + c, line 105
Step(z, c) == <<z[1] * z[1] - z[2] * z[2] + c[1], 2 * z[1] * z[2] + c[2]>>

\* lines 96-97
InsideCardioid(z) ==
    LET q == (z[1] - OneOverFour) * (z[1] - OneOverFour) + z[2] * z[2]
    IN  q * (q + (z[1] - OneOverFour)) < OneOverFour * z[2] * z[2]

\* line 98
InsidePeriod2Bulb(z) ==
    (z[1] + 1) * (z[1] + 1) + z[2] * z[2] < OneOverSixteen

\* the cardioid test with the real constant 1/4, on a Gaussian integer p
\* (both sides multiplied by 256)
RealCardioid(p) ==
    LET a == 4 * p[1] - 1
        q == a * a + 16 * p[2] * p[2]
    IN  q * (q + 4 * a) < 64 * p[2] * p[2]

\* the period-2 bulb test with the real constant 1/16, on a Gaussian integer p
RealPeriod2Bulb(p) ==
    16 * ((p[1] + 1) * (p[1] + 1) + p[2] * p[2]) < 1

\* (int)s of lines 118-120 for an escaped z with |z|^2 = n, 4 <= n < 1000:
\* s = i + (log(log(1000)) - log(log(sqrt(n)))) / log(2), and the fraction added
\* to i is in [3, 4) for n <= 5, in [2, 3) for n <= 31, in [1, 2) below 1000
SmoothFirst(i, n) == i + (IF n <= 5 THEN 3 ELSE IF n <= 31 THEN 2 ELSE 1)

\* WritePixel, lines 160-168: the three bytes stored for the pixel. Color(0,0,0)
\* gives the bytes 0, 0, 0; a ramp colour is the blend of two ramp entries by
\* the fraction of s, which |z|^2 = n determines
KernelWritePixel(first, second, n) ==
    IF first = -1
    THEN [r |-> 0, g |-> 0, b |-> 0]
    ELSE [second |-> color_ramp[second % (max_colors * 2)],
          first |-> color_ramp[first % (max_colors * 2)],
          factor |-> n]

Black == [r |-> 0, g |-> 0, b |-> 0]

\* lines 88-92: c from the pixel and the viewport
Kernel88 ==
    /\ k_pc = "k88"
    /\ k_c' = <<Coord(k_in.x, k_in.w) * k_in.scale + k_in.offset[1],
                Coord(k_in.y, k_in.h) * k_in.scale + k_in.offset[2]>>
    /\ k_pc' = "k94"
    /\ UNCHANGED <<k_in, k_z, k_i, k_inside, k_early, k_rgb>>
    /\ UNCHANGED <<palette_vars, texture_width, texture_height, texture_data,
                   app_vars, renderer_vars, thread_vars, history_vars>>

\* a fault of Kernel94: the tests are made on c with the real constants, and the
\* loop is skipped when either holds
Kernel94_OnC ==
    /\ k_pc = "k94"
    /\ k_z' = <<0, 0>>
    /\ k_inside' = <<RealCardioid(k_c), RealPeriod2Bulb(k_c)>>
    /\ IF ~k_inside'[1] /\ ~k_inside'[2]
       THEN /\ k_i' = 0
            /\ k_early' = FALSE
            /\ k_pc' = "k103"
       ELSE /\ k_i' = max_iterations
            /\ k_early' = TRUE
            /\ k_pc' = "k114"
    /\ UNCHANGED <<k_in, k_c, k_rgb>>
    /\ UNCHANGED <<palette_vars, texture_width, texture_height, texture_data,
                   app_vars, renderer_vars, thread_vars, history_vars>>

\* lines 94-101 and 109-112: z = 0, the two tests on z, i = 0, and the branch
Kernel94 ==
    /\ k_pc = "k94"
    /\ k_z' = <<0, 0>>
    /\ k_inside' = <<InsideCardioid(k_z'), InsidePeriod2Bulb(k_z')>>
    /\ IF ~k_inside'[1] \/ ~k_inside'[2]
       THEN /\ k_i' = 0
            /\ k_early' = FALSE
            /\ k_pc' = "k103"
       ELSE /\ k_i' = max_iterations
            /\ k_early' = TRUE
            /\ k_pc' = "k114"
    /\ UNCHANGED <<k_in, k_c, k_rgb>>
    /\ UNCHANGED <<palette_vars, texture_width, texture_height, texture_data,
                   app_vars, renderer_vars, thread_vars, history_vars>>

\* lines 103-107: one pass of the iteration loop, or its end
Kernel103 ==
    /\ k_pc = "k103"
    /\ IF k_i < max_iterations /\ NormSq(k_z) < 2 * 2
       THEN /\ k_z' = Step(k_z, k_c)
            /\ k_i' = k_i + 1
            /\ UNCHANGED k_pc
       ELSE /\ k_pc' = "k114"
            /\ UNCHANGED <<k_z, k_i>>
    /\ UNCHANGED <<k_in, k_c, k_inside, k_early, k_rgb>>
    /\ UNCHANGED <<palette_vars, texture_width, texture_height, texture_data,
                   app_vars, renderer_vars, thread_vars, history_vars>>

\* a fault of Kernel114: an inside pixel is passed to WritePixel with first = 0
Kernel114_NoSentinel ==
    /\ k_pc = "k114"
    /\ IF NormSq(k_z) < 2 * 2 \/ k_i = max_iterations
       THEN k_rgb' = KernelWritePixel(0, 0, 0)
       ELSE LET first == SmoothFirst(k_i, NormSq(k_z))
            IN  k_rgb' = KernelWritePixel(first, first + 1, NormSq(k_z))
    /\ k_pc' = "kdone"
    /\ UNCHANGED <<k_in, k_c, k_z, k_i, k_inside, k_early>>
    /\ UNCHANGED <<palette_vars, texture_width, texture_height, texture_data,
                   app_vars, renderer_vars, thread_vars, history_vars>>

\* lines 114-123: classify the pixel and write it
Kernel114 ==
    /\ k_pc = "k114"
    /\ IF NormSq(k_z) < 2 * 2 \/ k_i = max_iterations
       THEN k_rgb' = KernelWritePixel(-1, 0, 0)
       ELSE LET first == SmoothFirst(k_i, NormSq(k_z))
            IN  k_rgb' = KernelWritePixel(first, first + 1, NormSq(k_z))
    /\ k_pc' = "kdone"
    /\ UNCHANGED <<k_in, k_c, k_z, k_i, k_inside, k_early>>
    /\ UNCHANGED <<palette_vars, texture_width, texture_height, texture_data,
                   app_vars, renderer_vars, thread_vars, history_vars>>

\* any pixel of a raster of a size in KernelSizes, under any viewport within the
\* bounds, with the ramp built; the threads are left where they are
InitKernel ==
    /\ ThreadsInit
    /\ texture_width = 1
    /\ texture_height = 1
    /\ current_job = [k \in Workers |-> MakeJob(0, 0, 0)]
    /\ color_ramp = BuiltRamp
    /\ ramp_i = max_colors
    /\ k_pc = "k88"
    /\ \E w \in KernelSizes, h \in KernelSizes :
       \E x \in 0..(w - 1), y \in 0..(h - 1) :
       \E s \in 0..KernelMaxScale :
       \E re \in (0 - KernelMaxOffset)..KernelMaxOffset,
          im \in (0 - KernelMaxOffset)..KernelMaxOffset :
           k_in = [x |-> x, y |-> y, w |-> w, h |-> h, scale |-> s,
                   offset |-> <<re, im>>]
    /\ k_c = <<0, 0>>
    /\ k_z = <<0, 0>>
    /\ k_i = 0
    /\ k_inside = <<FALSE, FALSE>>
    /\ k_early = FALSE
    /\ k_rgb = <<>>

NextKernel == Kernel88 \/ Kernel94 \/ Kernel103 \/ Kernel114

SpecKernel == InitKernel /\ [][NextKernel]_vars

\* ------------------------------------------------------------- properties

Started(k) == wpc[k] # "unstarted"

\* what the kernel yields for the pixel of byte b under the viewport of Job j
Expected(b, j) ==
    Shade(PixelOf(b, texture_width)[1], PixelOf(b, texture_width)[2],
          texture_width, texture_height, j)

\* the band of worker k as published to it
Band(k) == BandBytes(current_job[k], texture_width)

\* worker k is inside its band scan (lines 84-126)
Scanning(k) == wpc[k] \in {"w84", "w86"}

\* C1: the bands of job and job2, and of the Jobs the started workers hold, are
\* disjoint, cover the rows 0 .. height-1 exactly, and the odd row of an odd
\* height is in the last band
C1_BandsPartition ==
    /\ \A a, b \in Workers : a # b => Rows(job[a]) \cap Rows(job[b]) = {}
    /\ UNION {Rows(job[k]) : k \in Workers} = 0..(texture_height - 1)
    /\ \A k \in Workers :
          job[k].y_count = (texture_height \div NumWorkers)
                             + (IF k = NumWorkers THEN texture_height % NumWorkers ELSE 0)
    /\ \A k \in Workers : Started(k) => Rows(current_job[k]) = Rows(job[k])

C1_Witness ==
    /\ \A k \in Workers : Started(k)
    /\ texture_height % NumWorkers = 1
    /\ texture_height > 1

\* C2: no raster byte is ever written by two different workers
C2_NoSharedByte ==
    \A a, b \in Workers : a # b => wrote[a] \cap wrote[b] = {}

C2_Witness ==
    /\ \A k \in Workers : wrote[k] = Band(k) /\ wrote[k] # {}
    /\ \E k \in Workers : Scanning(k) /\ current_job[k].scale > 0

\* C4: when the consumer has seen jobDone() true for every worker, every byte of
\* the raster has been written since the latest round of setJob calls, and holds
\* the value computed for the Job published for its band
C4_AllDoneMeansWritten ==
    cpc = "c260" =>
        /\ written = RasterBytes(texture_width, texture_height)
        /\ \A k \in Workers : \A b \in Band(k) : texture_data[b] = Expected(b, current_job[k])

C4_Witness ==
    /\ cpc = "c260"
    /\ \A k \in Workers : current_job[k].scale > 0

\* C5: when the consumer reads the raster, every worker is done and none is
\* inside its band scan or about to enter it
C5_ReadOnlyWhenIdle ==
    cpc = "c260" =>
        \A k \in Workers :
            /\ job_done[k]
            /\ wpc[k] \notin {"w84", "w86", "w128", "w129"}
            /\ wpc[k] = "w82" => w_done[k]

C5_Witness ==
    /\ cpc = "c260"
    /\ \A k \in Workers : wrote[k] # {} /\ wpc[k] = "w133"

\* setJob has replaced current_job of worker k and has not yet cleared job_done
HalfPublished(k) == c_this = k /\ cpc \in {"s54", "s55"}

\* the band of worker k is written through with the viewport of its published Job
BandFresh(k) ==
    /\ Band(k) \subseteq written
    /\ \A b \in Band(k) : texture_data[b] = Expected(b, current_job[k])

\* C3: job_done of a worker is true only while every pixel of its current Job is
\* written, the consumer submitting only after jobDone() returned true
C3_JobDoneMeansBandWritten ==
    \A k \in Workers : job_done[k] => Band(k) \subseteq written

\* the same with the time setJob is under way left out: this much the code keeps
JobDoneOutsideSetJob ==
    \A k \in Workers : (job_done[k] /\ ~HalfPublished(k)) => BandFresh(k)

\* C6: while setJob has replaced the Job and not yet cleared job_done, the worker
\* is not inside a critical section of job_mutex (it cannot see the half-made state)
C6_SetJobAtomic ==
    \A k \in Workers : HalfPublished(k) => job_mutex[k] # "worker"

\* C7: under a caller that resubmits while job_done is false, job_done is true
\* (setJob not being under way) only when the band of the published Job is written
\* through with that Job's viewport
C7_ResubmitTolerated ==
    \A k \in Workers : (job_done[k] /\ ~HalfPublished(k)) => BandFresh(k)

\* C8 as stated: every setJob call made once the threads run finds job_done true
\* for every worker
C8_EverySetJobAllDone ==
    (cpc = "s53" /\ \A k \in Workers : Started(k)) => \A k \in Workers : job_done[k]

\* C8 as amended: a round of setJob calls begins only when job_done is true for
\* every worker, each call is made on a worker whose own job_done is true, and a
\* pass of the frame loop submits one Job to every worker or none to any
C8_RoundStartsAllDone ==
    /\ (cpc = "s53" /\ c_ret = "c267") => \A k \in Workers : job_done[k]
    /\ \A k \in Workers : (cpc = "s53" /\ c_this = k /\ Started(k)) => job_done[k]
    /\ \A k \in Workers : submits[k] <= 1
    /\ cpc = "c271" => \A a, b \in Workers : submits[a] = submits[b]

C8_Witness ==
    /\ cpc = "c271"
    /\ \A k \in Workers : submits[k] = 1 /\ current_job[k].scale > 0

\* C9: a worker that began a band finishes it and stores job_done = true before it
\* reads running again, also when stop() came during the scan, and it begins at
\* most one band after stop() returned
C9_StopAtBandBoundary ==
    \A k \in Workers :
        /\ late_bands[k] <= 1
        /\ (wpc[k] \in {"w136", "w137", "exit"} /\ ~w_done[k]) =>
               (band_done[k] /\ scanned[k] = BandBytes(w_job[k], texture_width))
        /\ mid_stop[k] => (~w_done[k] /\ late_bands[k] = 0)

C9_Witness ==
    \E k \in Workers : wpc[k] = "exit" /\ mid_stop[k] /\ scanned[k] # {}

\* a band begun after stop() returned, and finished
LateBandFinished ==
    \E k \in Workers : wpc[k] = "exit" /\ late_bands[k] = 1 /\ scanned[k] # {}

\* C10 as stated: when both joins have returned, the band of every submitted Job is
\* written and job_done is true
C10_JoinMeansJobDone ==
    cpc = "done" => \A k \in Workers : job_done[k] /\ Band(k) \subseteq written

\* C10 as amended: when both joins have returned no band is left half written: a
\* worker's band is written through with job_done true, or its scan never began
\* (job_done false and no pixel of the Job written)
C10_JoinMeansNoBandInFlight ==
    cpc \in {"c280", "done"} =>
        \A k \in Workers :
            \/ job_done[k] /\ BandFresh(k)
            \/ ~job_done[k] /\ Band(k) \cap written = {}

C10_Witness ==
    /\ cpc = "done"
    /\ \E k \in Workers : mid_stop[k] /\ job_done[k] /\ Band(k) # {}
    /\ \E k \in Workers : ~job_done[k] /\ Band(k) # {}

\* the raster one scan of all rows would leave under the viewport of Job j
ReferenceRaster(j) ==
    [b \in RasterBytes(texture_width, texture_height) |-> Expected(b, j)]

\* C13: whatever the interleaving and whatever the bands, the raster the consumer
\* finds when all workers are done is the one fixed by width, height, scale and
\* offset alone: every byte holds what the kernel yields for its own pixel
C13_RasterIsFunctionOfInputs ==
    cpc = "c260" => texture_data = ReferenceRaster(job[1])

C13_Witness ==
    /\ cpc = "c260"
    /\ job[1].scale > 0
    /\ texture_height > 1 /\ texture_height % NumWorkers = 1

\* the viewport a written raster byte was computed with
ViewportOf(v) == <<v[5], v[6]>>

\* C16: when the consumer reads the raster, both workers hold Jobs of one and the
\* same scale and offset and every byte was computed with that viewport; an
\* uploaded frame never mixes two viewports
C16_OneViewportPerFrame ==
    /\ cpc = "c260" =>
          /\ \A a, b \in Workers :
                /\ current_job[a].scale = current_job[b].scale
                /\ current_job[a].offset = current_job[b].offset
          /\ \A k \in Workers : \A b \in DOMAIN texture_data :
                ViewportOf(texture_data[b]) = <<current_job[k].scale, current_job[k].offset>>
    /\ \A a, b \in DOMAIN texture :
          (texture[a] # Unwritten /\ texture[b] # Unwritten) =>
              ViewportOf(texture[a]) = ViewportOf(texture[b])

C16_Witness ==
    /\ cpc = "c262"
    /\ texture_height > 1
    /\ \A b \in DOMAIN texture : texture[b] # Unwritten /\ ViewportOf(texture[b])[1] > 0

\* the mutexes the consumer thread holds
HeldByMain ==
    {<<"job", k>> : k \in {i \in Workers : job_mutex[i] = "main"}}
        \cup {<<"running", k>> : k \in {i \in Workers : running_mutex[i] = "main"}}

\* C18: no thread holds job_mutex and running_mutex together, a thread that is
\* about to lock a mutex holds none, and as long as the program has not ended
\* some thread can take a step
C18_NeverBothMutexes ==
    /\ \A k \in Workers : ~(job_mutex[k] = "worker" /\ running_mutex[k] = "worker")
    /\ Cardinality(HeldByMain) <= 1
    /\ \A k \in Workers :
          wpc[k] \in {"w78", "w128", "w136"} =>
              (job_mutex[k] # "worker" /\ running_mutex[k] # "worker")
    /\ cpc \in {"s54", "d60", "t66"} => HeldByMain = {}
    /\ cpc # "done" => ENABLED Next

C18_Witness ==
    \E k \in Workers : job_mutex[k] = "worker" /\ running_mutex[k] = "main"

\* C19: every published Job ends within the raster, every byte a worker writes
\* lies within the raster, a pixel owns exactly three byte offsets that no other
\* pixel owns, and nothing is written once the raster is deleted
C19_WritesInBounds ==
    /\ \A k \in Workers :
          Started(k) => current_job[k].y_start + current_job[k].y_count <= texture_height
    /\ \A k \in Workers : wrote[k] \subseteq RasterBytes(texture_width, texture_height)
    /\ DOMAIN texture_data = RasterBytes(texture_width, texture_height)
    /\ \A x \in 0..(texture_width - 1), y \in 0..(texture_height - 1) :
          /\ Cardinality(PixelBytes(x, y, texture_width)) = BytesPerPixel
          /\ PixelBytes(x, y, texture_width)
                \subseteq RasterBytes(texture_width, texture_height)
          /\ \A x2 \in 0..(texture_width - 1), y2 \in 0..(texture_height - 1) :
                <<x, y>> # <<x2, y2>> =>
                    PixelBytes(x, y, texture_width)
                        \cap PixelBytes(x2, y2, texture_width) = {}
    /\ freed => \A k \in Workers : wpc[k] = "exit"

C19_Witness ==
    /\ cpc = "done"
    /\ texture_height > 1
    /\ UNION {wrote[k] : k \in Workers} = RasterBytes(texture_width, texture_height)

\* C15: once the palette loop has ended, all 2K entries of the ramp are assigned,
\* the ramp reads the same from both ends, and from then on, workers running or
\* not, it never changes
C15_RampPalindromic ==
    cpc # "c222" =>
        /\ DOMAIN color_ramp = 0..(max_colors * 2 - 1)
        /\ \A i \in DOMAIN color_ramp : color_ramp[i] # NoColor
        /\ \A i \in 0..(max_colors - 1) :
              color_ramp[max_colors * 2 - 1 - i] = color_ramp[i]
        /\ color_ramp[0] = color_ramp[max_colors * 2 - 1]
        /\ color_ramp[max_colors - 1] = color_ramp[max_colors]
        /\ color_ramp = BuiltRamp

C15_Witness ==
    /\ \A k \in Workers : Started(k) /\ wrote[k] # {}
    /\ color_ramp[max_colors - 1] = RampColor(max_colors - 1)
    /\ color_ramp[max_colors] = RampColor(max_colors - 1)

\* the kernel classifies the pixel as inside
ClassifiedInside == NormSq(k_z) < 4 \/ k_i = max_iterations \/ k_early

\* C14: a pixel classified inside (|z|^2 < 4 at the end of the iteration, or i
\* at max_iterations, or the early-out taken) is written as the bytes 0, 0, 0,
\* and i is within 0..max_iterations at every statement of the kernel
C14_InsideIsBlack ==
    /\ k_i \in 0..max_iterations
    /\ (k_pc = "kdone" /\ ClassifiedInside) => k_rgb = Black

C14_Witness ==
    /\ k_pc = "kdone"
    /\ k_i = max_iterations
    /\ NormSq(k_z) < 4
    /\ k_c # <<0, 0>>
    /\ k_rgb = Black

\* C17: for every pixel both tests are false, because they are made on z = 0
\* with 1/4 = 0 and 1/16 = 0; the loop branch is taken and the branch of line 111
\* is never taken
C17_EarlyOutNeverFires ==
    /\ OneOverFour = 0 /\ OneOverSixteen = 0
    /\ ~InsideCardioid(<<0, 0>>) /\ ~InsidePeriod2Bulb(<<0, 0>>)
    /\ k_pc \notin {"k88", "k94"} => k_inside = <<FALSE, FALSE>>
    /\ ~k_early

\* a pixel of the main cardioid (c = 0) that went through all max_iterations
\* passes of the loop
C17_Witness ==
    /\ k_pc = "kdone"
    /\ k_c = <<0, 0>>
    /\ RealCardioid(k_c)
    /\ k_i = max_iterations
    /\ ~k_early

\* C11: once stop() has cleared a worker's running flag, the joins of lines
\* 277-278 return and run() ends, and a join returns only when its worker's
\* thread has reached the end of operator(): every stopped worker terminates,
\* wherever stop() found it
C11_StoppedWorkerExits ==
    /\ [](cpc \in {"c280", "done"} => \A k \in Workers : wpc[k] = "exit")
    /\ (\E k \in Workers : ~running[k]) ~> (cpc = "done")

C11_Witness ==
    /\ cpc = "done"
    /\ \A k \in Workers : ~running[k] /\ wpc[k] = "exit"
    /\ \E k \in Workers : mid_stop[k]
    /\ \E k \in Workers : late_bands[k] = 1

\* C12: while no worker is stopped, a state in which some worker's Job is not
\* done leads to the consumer's upload of line 260, which it reaches only with
\* every worker's job_done true: every submitted Job is completed and the frame
\* cycle goes on
C12_JobsComplete ==
    /\ [](cpc = "c260" => \A k \in Workers : job_done[k])
    /\ (\E k \in Workers : ~job_done[k]) ~>
           (cpc = "c260" \/ (\E k \in Workers : ~running[k]))

C12_Witness ==
    /\ cpc = "c260"
    /\ app_running
    /\ \A k \in Workers : job_done[k] /\ running[k] /\ current_job[k].scale > 0
    /\ \A k \in Workers : band_done[k]

====
